---- MODULE Spec2Model ----
(***************************************************************************)
(* A model of utils/gamecontroller.py: the GameController class.  Every    *)
(* public method is a synchronous sequence of operating-system calls.  The *)
(* model takes one step per OS call; the outcome of each call (its return  *)
(* value, or the exception it raises) is chosen by the environment.  The   *)
(* variable calls records the OS calls issued by the public call in        *)
(* progress, in order, and result records what that call gave its caller.  *)
(***************************************************************************)
EXTENDS Integers, Sequences, FiniteSets, TLC

(* ------------------------------ bounds --------------------------------- *)

\* the largest number of processes one enumeration yields
MaxProcs == 2

\* the largest delay passed to shutdown; the smallest is -1
MaxDelay == 1

(* ------------------------ strings as sequences ------------------------- *)

\* the bound process name (self.process_name), as a sequence of characters
process_name == <<"g", "m">>

\* the process names the enumeration may report
ProcNames == { <<"g", "m">>, <<"x", "g", "m">>, <<"g", "x", "m">> }

\* info["name"] when psutil could not read the name (ad_value None)
NoName == <<"None">>

\* the login names os.getlogin() may return
Logins == { <<"u">>, <<"v">> }

\* the owner names process.username() may return, with or without a domain
Owners == { <<"u">>, <<"D", "\\", "u">>, <<"u", "\\", "v">> }

\* target in name: name has target as a contiguous substring
Contains(target, name) ==
    \E i \in 0..(Len(name) - Len(target)) :
        SubSeq(name, i + 1, i + Len(target)) = target

\* the positions of the separator in s
SepPositions(s) == { i \in 1..Len(s) : s[i] = "\\" }

\* the largest element of a non-empty set of integers
SetMax(S) == CHOOSE x \in S : \A y \in S : y <= x

\* s.split("\\")[-1]: what follows the last separator, all of s without one
SplitLast(s) ==
    IF SepPositions(s) = {} THEN s
    ELSE SubSeq(s, SetMax(SepPositions(s)) + 1, Len(s))

(* ---------------------------- program data ----------------------------- *)

Actions == {"Exit", "Loop", "Shutdown", "Sleep", "Hibernate"}

Delays == (0 - 1)..MaxDelay

\* the window handle FindWindow returns for the game window
HWND == 1

SW_MINIMIZE == 6

SW_RESTORE == 9

\* the client areas GetClientRect may report
Sizes == { <<1920, 1080>>, <<1280, 720>> }

\* the exceptions an OS call may raise, by what the handlers tell apart
ExcKinds == {"IndexError", "error"}

CmdShutdown == "shutdown /s /t 0"

CmdHibernateOff == "powercfg -h off"

CmdSuspend == "rundll32.exe powrprof.dll,SetSuspendState 0,1,0"

CmdHibernateOn == "powercfg -h on"

CmdHibernate == "shutdown /h"

CmdStart == "cmd /C start"

\* the Sleep branch with the suspend request issued first
PowerCommandsSuspendFirst(a) ==
    IF a = "Shutdown" THEN <<CmdShutdown>>
    ELSE IF a = "Sleep" THEN <<CmdSuspend, CmdHibernateOff, CmdHibernateOn>>
    ELSE IF a = "Hibernate" THEN <<CmdHibernate>>
    ELSE << >>

\* the Sleep branch without the last command
PowerCommandsNoReenable(a) ==
    IF a = "Shutdown" THEN <<CmdShutdown>>
    ELSE IF a = "Sleep" THEN <<CmdHibernateOff, CmdSuspend>>
    ELSE IF a = "Hibernate" THEN <<CmdHibernate>>
    ELSE << >>

\* the if/elif chain of shutdown: the commands of an action, in order
PowerCommands(a) ==
    IF a = "Shutdown" THEN <<CmdShutdown>>
    ELSE IF a = "Sleep" THEN <<CmdHibernateOff, CmdSuspend, CmdHibernateOn>>
    ELSE IF a = "Hibernate" THEN <<CmdHibernate>>
    ELSE << >>

\* the early return taken for "Exit" alone
IsNoOpExitOnly(a) == a = "Exit"

\* action not in ["Shutdown", "Hibernate", "Sleep"]
IsNoOp(a) == a \notin {"Shutdown", "Hibernate", "Sleep"}

\* the hibernation setting after a command has been dispatched
HibernationAfter(cmd, h) ==
    IF cmd = CmdHibernateOff THEN FALSE
    ELSE IF cmd = CmdHibernateOn THEN TRUE
    ELSE h

\* a value returned to the caller of a public method
Ret(tag) == [tag |-> tag, width |-> 0, height |-> 0]

RetSize(sz) == [tag |-> "Tuple", width |-> sz[1], height |-> sz[2]]

\* an OS call issued, with its outcome
Call(name, arg, num, ret) == [call |-> name, arg |-> arg, num |-> num, ret |-> ret]

(* ------------------------------- state --------------------------------- *)

VARIABLES
    pc,               \* the position of the call in progress, "idle" between calls
    op,               \* the public method in progress or last finished
    action,           \* shutdown's action argument
    delay,            \* shutdown's delay argument
    result,           \* what the last public call gave its caller
    calls,            \* the OS calls issued by the call in progress, in order
    seen,             \* the processes process_iter has yielded so far
    system_username,  \* the local of terminate_named_process
    stop_ret,         \* what stop_game returned, "pending" before it returns
    pending,          \* the power commands shutdown has still to issue
    hwnd,             \* the local hwnd of switch_to_game and get_resolution
    hibernation       \* the system's hibernation setting, as last requested

vars == <<pc, op, action, delay, result, calls, seen, system_username,
          stop_ret, pending, hwnd, hibernation>>

Init ==
    /\ pc = "idle"
    /\ op = "none"
    /\ action = "Exit"
    /\ delay = 0
    /\ result = Ret("pending")
    /\ calls = << >>
    /\ seen = << >>
    /\ system_username = << >>
    /\ stop_ret = "pending"
    /\ pending = << >>
    /\ hwnd = 0
    /\ hibernation \in BOOLEAN

\* the state a public call starts from
Begin(o, a, d, at) ==
    /\ pc' = at
    /\ op' = o
    /\ action' = a
    /\ delay' = d
    /\ result' = Ret("pending")
    /\ calls' = << >>
    /\ seen' = << >>
    /\ system_username' = << >>
    /\ stop_ret' = "pending"
    /\ pending' = << >>
    /\ hwnd' = 0
    /\ UNCHANGED hibernation

\* the public call in progress returns v (or lets an exception escape)
Finish(v) ==
    /\ pc' = "idle"
    /\ result' = v

(* ----------------------------- start_game ------------------------------ *)

CallStartGame ==
    /\ pc = "idle"
    /\ Begin("start_game", "Exit", 0, "start_exists")

\* the path check with its sense inverted
PathMissingInverted(exists) == exists

\* if not os.path.exists(self.game_path)
PathMissing(exists) == ~exists

\* the path check of start_game: return False on a missing path
StartExists ==
    /\ pc = "start_exists"
    /\ \E exists \in BOOLEAN :
        /\ calls' = Append(calls, Call("exists", "", 0, IF exists THEN "True" ELSE "False"))
        /\ IF PathMissing(exists)
           THEN Finish(Ret("False"))
           ELSE /\ pc' = "start_system"
                /\ UNCHANGED result
    /\ UNCHANGED <<op, action, delay, seen, system_username, stop_ret, pending, hwnd, hibernation>>

\* the value start_game returns for an exit status of the shell
StartResult(status) == IF status = 0 THEN Ret("True") ELSE Ret("False")

\* if not os.system(...): return True  else: return False; no handler around it
StartSystem ==
    /\ pc = "start_system"
    /\ \/ \E status \in {0, 1} :
            /\ calls' = Append(calls, Call("system", CmdStart, status, "ok"))
            /\ Finish(StartResult(status))
       \/ /\ calls' = Append(calls, Call("system", CmdStart, 0, "raise"))
          /\ Finish(Ret("raised"))
    /\ UNCHANGED <<op, action, delay, seen, system_username, stop_ret, pending, hwnd, hibernation>>

(* ------------------- stop_game, terminate_named_process ---------------- *)

\* the processes an enumeration may yield: the name psutil read, the owner
Procs == [name : ProcNames \cup {NoName}, owner : Owners]

\* the name test as an equality
NameMatchesExact(p) == p.name = process_name

\* if target_process_name in process.info["name"]
NameMatches(p) == Contains(process_name, p.name)

\* the owner test as "login in owner", without the split
OwnerMatchesAnywhere(login, owner) == Contains(login, owner)

\* if system_username == process_username, after the split
OwnerMatches(login, owner) == login = SplitLast(owner)

\* the pid of the process the loop is at: its place in the enumeration
CurrentPid == Len(seen)

CallStopGame ==
    /\ pc = "idle"
    /\ Begin("stop_game", "Exit", 0, "stop_getlogin")

\* stop_game returns v: to the caller, or to shutdown, which goes on
StopReturn(v) ==
    IF op = "shutdown"
    THEN /\ stop_ret' = v
         /\ pc' = "sd_action"
         /\ UNCHANGED result
    ELSE /\ stop_ret' = v
         /\ Finish(Ret(v))

\* system_username = os.getlogin(), inside stop_game's try
GetLogin ==
    /\ pc = "stop_getlogin"
    /\ \/ \E u \in Logins :
            /\ system_username' = u
            /\ calls' = Append(calls, Call("getlogin", "", 0, "ok"))
            /\ pc' = "stop_iter"
            /\ UNCHANGED <<result, stop_ret>>
       \/ /\ calls' = Append(calls, Call("getlogin", "", 0, "raise"))
          /\ StopReturn("False")
          /\ UNCHANGED system_username
    /\ UNCHANGED <<op, action, delay, seen, pending, hwnd, hibernation>>

\* for process in psutil.process_iter(...): if target in process.info["name"]
ProcessIter ==
    /\ pc = "stop_iter"
    /\ \/ \* the enumeration is exhausted: the loop ends, stop_game returns True
          /\ calls' = Append(calls, Call("process_iter", "", 0, "stop"))
          /\ StopReturn("True")
          /\ UNCHANGED seen
       \/ \* the enumeration raises
          /\ calls' = Append(calls, Call("process_iter", "", 0, "raise"))
          /\ StopReturn("False")
          /\ UNCHANGED seen
       \/ \* the enumeration yields the next process
          /\ Len(seen) < MaxProcs
          /\ \E p \in Procs :
               /\ seen' = Append(seen, p)
               /\ calls' = Append(calls, Call("process_iter", "", Len(seen) + 1, "ok"))
               /\ IF p.name = NoName
                  THEN StopReturn("False")     \* "in" on None raises TypeError
                  ELSE /\ pc' = IF NameMatches(p) THEN "stop_username" ELSE "stop_iter"
                       /\ UNCHANGED <<result, stop_ret>>
    /\ UNCHANGED <<op, action, delay, system_username, pending, hwnd, hibernation>>

\* process_username = process.username().split("\\")[-1]; the comparison
Username ==
    /\ pc = "stop_username"
    /\ \/ /\ calls' = Append(calls, Call("username", "", CurrentPid, "ok"))
          /\ pc' = IF OwnerMatches(system_username, seen[CurrentPid].owner)
                   THEN "stop_process" ELSE "stop_iter"
          /\ UNCHANGED <<result, stop_ret>>
       \/ /\ calls' = Append(calls, Call("username", "", CurrentPid, "raise"))
          /\ StopReturn("False")
    /\ UNCHANGED <<op, action, delay, seen, system_username, pending, hwnd, hibernation>>

\* proc_to_terminate = psutil.Process(process.info["pid"])
NewProcess ==
    /\ pc = "stop_process"
    /\ \/ /\ calls' = Append(calls, Call("Process", "", CurrentPid, "ok"))
          /\ pc' = "stop_terminate"
          /\ UNCHANGED <<result, stop_ret>>
       \/ /\ calls' = Append(calls, Call("Process", "", CurrentPid, "raise"))
          /\ StopReturn("False")
    /\ UNCHANGED <<op, action, delay, seen, system_username, pending, hwnd, hibernation>>

\* proc_to_terminate.terminate()
Terminate ==
    /\ pc = "stop_terminate"
    /\ \/ /\ calls' = Append(calls, Call("terminate", "", CurrentPid, "ok"))
          /\ pc' = "stop_wait"
          /\ UNCHANGED <<result, stop_ret>>
       \/ /\ calls' = Append(calls, Call("terminate", "", CurrentPid, "raise"))
          /\ StopReturn("False")
    /\ UNCHANGED <<op, action, delay, seen, system_username, pending, hwnd, hibernation>>

\* proc_to_terminate.wait(termination_timeout); a timeout raises
Wait ==
    /\ pc = "stop_wait"
    /\ \/ /\ calls' = Append(calls, Call("wait", "", CurrentPid, "ok"))
          /\ pc' = "stop_iter"
          /\ UNCHANGED <<result, stop_ret>>
       \/ /\ calls' = Append(calls, Call("wait", "", CurrentPid, "raise"))
          /\ StopReturn("False")
    /\ UNCHANGED <<op, action, delay, seen, system_username, pending, hwnd, hibernation>>

(* ------------------------------ shutdown ------------------------------- *)

\* shutdown(action, delay): self.stop_game() comes first
CallShutdown ==
    /\ pc = "idle"
    /\ \E a \in Actions, d \in Delays : Begin("shutdown", a, d, "stop_getlogin")

\* if action not in [...]: return True
ShutdownAction ==
    /\ pc = "sd_action"
    /\ IF IsNoOp(action)
       THEN Finish(Ret("True"))
       ELSE /\ pc' = "sd_sleep"
            /\ UNCHANGED result
    /\ UNCHANGED <<op, action, delay, calls, seen, system_username, stop_ret,
                   pending, hwnd, hibernation>>

\* time.sleep(delay), before the try: a negative delay raises ValueError
Sleep ==
    /\ pc = "sd_sleep"
    /\ IF delay < 0
       THEN /\ calls' = Append(calls, Call("sleep", "", delay, "raise"))
            /\ Finish(Ret("raised"))
            /\ UNCHANGED pending
       ELSE /\ calls' = Append(calls, Call("sleep", "", delay, "ok"))
            /\ pc' = "sd_system"
            /\ pending' = PowerCommands(action)
            /\ UNCHANGED result
    /\ UNCHANGED <<op, action, delay, seen, system_username, stop_ret, hwnd, hibernation>>

\* os.system(...) of the next command of the action, inside the try
PowerSystem ==
    /\ pc = "sd_system"
    /\ pending # << >>
    /\ \/ \E status \in {0, 1} :
            /\ calls' = Append(calls, Call("system", Head(pending), status, "ok"))
            /\ hibernation' = HibernationAfter(Head(pending), hibernation)
            /\ pending' = Tail(pending)
            /\ IF Tail(pending) = << >>
               THEN Finish(Ret("True"))
               ELSE UNCHANGED <<pc, result>>
       \/ /\ calls' = Append(calls, Call("system", Head(pending), 0, "raise"))
          /\ Finish(Ret("False"))
          /\ UNCHANGED <<pending, hwnd, hibernation>>
    /\ UNCHANGED <<op, action, delay, seen, system_username, stop_ret, hwnd>>

(* ---------------- switch_to_game, set_foreground_window_with_retry ----- *)

CallSwitchToGame ==
    /\ pc = "idle"
    /\ Begin("switch_to_game", "Exit", 0, "sw_find")

\* the lookup result never taken as "no window"
NotFoundNever(h) == FALSE

\* if hwnd == 0
NotFound(h) == h = 0

\* hwnd = win32gui.FindWindow(...); if hwnd == 0: return False; inside the try
SwitchFindWindow ==
    /\ pc = "sw_find"
    /\ \/ \E h \in {0, HWND} :
            /\ calls' = Append(calls, Call("FindWindow", "", h, "ok"))
            /\ hwnd' = h
            /\ IF NotFound(h)
               THEN Finish(Ret("False"))
               ELSE /\ pc' = "sw_restore1"
                    /\ UNCHANGED result
       \/ /\ calls' = Append(calls, Call("FindWindow", "", 0, "raise"))
          /\ Finish(Ret("False"))
          /\ UNCHANGED hwnd
    /\ UNCHANGED <<op, action, delay, seen, system_username, stop_ret, pending, hibernation>>

\* the two window states exchanged
WindowStateSwapped(minimize) == IF minimize THEN SW_RESTORE ELSE SW_MINIMIZE

\* state = SW_MINIMIZE if minimize else SW_RESTORE
WindowState(minimize) == IF minimize THEN SW_MINIMIZE ELSE SW_RESTORE

\* the statement after each toggle_window_state call
AfterToggle(at) ==
    IF at = "sw_restore1" THEN "sw_focus1"
    ELSE IF at = "sw_minimize" THEN "sw_restore2"
    ELSE "sw_focus2"

\* toggle_window_state(hwnd, minimize): ShowWindow(hwnd, state)
ToggleWindowState ==
    /\ pc \in {"sw_restore1", "sw_minimize", "sw_restore2"}
    /\ calls' = Append(calls, Call("ShowWindow", "", WindowState(pc = "sw_minimize"), "ok"))
    /\ pc' = AfterToggle(pc)
    /\ UNCHANGED <<op, action, delay, result, seen, system_username, stop_ret,
                   pending, hwnd, hibernation>>

\* the first SetForegroundWindow(hwnd): 0 is a refusal
SetForeground1 ==
    /\ pc = "sw_focus1"
    /\ \E r \in {0, 1} :
        /\ calls' = Append(calls, Call("SetForegroundWindow", "", r, "ok"))
        /\ IF r = 0
           THEN /\ pc' = "sw_minimize"
                /\ UNCHANGED result
           ELSE Finish(Ret("True"))
    /\ UNCHANGED <<op, action, delay, seen, system_username, stop_ret, pending, hwnd, hibernation>>

\* the second SetForegroundWindow(hwnd): a refusal raises, the handler returns False
SetForeground2 ==
    /\ pc = "sw_focus2"
    /\ \E r \in {0, 1} :
        /\ calls' = Append(calls, Call("SetForegroundWindow", "", r, "ok"))
        /\ Finish(IF r = 0 THEN Ret("False") ELSE Ret("True"))
    /\ UNCHANGED <<op, action, delay, seen, system_username, stop_ret, pending, hwnd, hibernation>>

(* ---------------------------- get_resolution --------------------------- *)

CallGetResolution ==
    /\ pc = "idle"
    /\ Begin("get_resolution", "Exit", 0, "res_find")

\* except IndexError: return None; any other exception leaves the method
Handle(kind) == IF kind = "IndexError" THEN Ret("None") ELSE Ret("raised")

\* hwnd = win32gui.FindWindow(...); if hwnd == 0: return None
ResolutionFindWindow ==
    /\ pc = "res_find"
    /\ \/ \E h \in {0, HWND} :
            /\ calls' = Append(calls, Call("FindWindow", "", h, "ok"))
            /\ hwnd' = h
            /\ IF NotFound(h)
               THEN Finish(Ret("None"))
               ELSE /\ pc' = "res_rect"
                    /\ UNCHANGED result
       \/ \E kind \in ExcKinds :
            /\ calls' = Append(calls, Call("FindWindow", kind, 0, "raise"))
            /\ Finish(Handle(kind))
            /\ UNCHANGED hwnd
    /\ UNCHANGED <<op, action, delay, seen, system_username, stop_ret, pending, hibernation>>

\* _, _, window_width, window_height = win32gui.GetClientRect(hwnd)
GetClientRect ==
    /\ pc = "res_rect"
    /\ \/ \E sz \in Sizes :
            /\ calls' = Append(calls, Call("GetClientRect", "", hwnd, "ok"))
            /\ Finish(RetSize(sz))
       \/ \E kind \in ExcKinds :
            /\ calls' = Append(calls, Call("GetClientRect", kind, hwnd, "raise"))
            /\ Finish(Handle(kind))
    /\ UNCHANGED <<op, action, delay, seen, system_username, stop_ret, pending, hwnd, hibernation>>

Next ==
    \/ CallStartGame
    \/ StartExists
    \/ StartSystem
    \/ CallStopGame
    \/ GetLogin
    \/ ProcessIter
    \/ Username
    \/ NewProcess
    \/ Terminate
    \/ Wait
    \/ CallShutdown
    \/ ShutdownAction
    \/ Sleep
    \/ PowerSystem
    \/ CallSwitchToGame
    \/ SwitchFindWindow
    \/ ToggleWindowState
    \/ SetForeground1
    \/ SetForeground2
    \/ CallGetResolution
    \/ ResolutionFindWindow
    \/ GetClientRect

Spec == Init /\ [][Next]_vars

(* ----------------------- reading the record of calls ------------------- *)

\* the calls of one kind, in the order issued
Issued(name) == SelectSeq(calls, LAMBDA e : e.call = name)

\* the shell commands issued, in order
SystemCmds == [i \in 1..Len(Issued("system")) |-> Issued("system")[i].arg]

\* the window-control calls issued, in order
WindowCalls == SelectSeq(calls, LAMBDA e : e.call \in {"ShowWindow", "SetForegroundWindow"})

\* s is an initial part of t
IsPrefix(s, t) == Len(s) <= Len(t) /\ SubSeq(t, 1, Len(s)) = s

\* the public call has returned (or let an exception escape)
Done == pc = "idle" /\ op # "none"

\* owner is login, or a domain, a backslash and login
OwnedBy(login, owner) ==
    \/ owner = login
    \/ /\ Len(owner) > Len(login)
       /\ owner[Len(owner) - Len(login)] = "\\"
       /\ SubSeq(owner, Len(owner) - Len(login) + 1, Len(owner)) = login

\* the i-th process enumerated has the bound name inside its name and is
\* owned by the login user
Targeted(i) ==
    /\ seen[i].name # NoName
    /\ Contains(process_name, seen[i].name)
    /\ OwnedBy(system_username, seen[i].owner)

\* the pids that were sent a call of one kind
PidsOf(name) == { calls[i].num : i \in { j \in 1..Len(calls) : calls[j].call = name } }

\* the calls that make up the terminate step
TerminateStep == {"getlogin", "process_iter", "username", "Process", "terminate", "wait"}

\* some call of the given kinds raised
Raised(kinds) == \E i \in 1..Len(calls) : calls[i].call \in kinds /\ calls[i].ret = "raise"

\* the name of some enumerated process could not be read
UnreadableName == \E i \in 1..Len(seen) : seen[i].name = NoName

SleepOrder == <<CmdHibernateOff, CmdSuspend, CmdHibernateOn>>

(* -------------------------------- claims ------------------------------- *)

\* C1: no exception ever escapes a public operation: every call ends by
\* returning a value to its caller.
NoExceptionEscapes == result.tag # "raised"

\* C2: a process is sent terminate, or waited on, only if its name contains
\* the bound process name and its owner, domain prefix stripped, is the
\* login name.
OnlyTargetedSignalled ==
    \A i \in 1..Len(calls) :
        calls[i].call \in {"terminate", "wait"} =>
            /\ calls[i].num \in 1..Len(seen)
            /\ Targeted(calls[i].num)

\* a process was signalled while another, with the bound name but another
\* owner, and a third of another name, were passed over
WitnessOnlyTargeted ==
    /\ PidsOf("terminate") # {}
    /\ \E i \in 1..Len(seen) :
         /\ seen[i].name # NoName
         /\ Contains(process_name, seen[i].name)
         /\ ~OwnedBy(system_username, seen[i].owner)
         /\ i \notin PidsOf("terminate")

\* C3: shutdown with action Exit or Loop, whatever the delay, runs the
\* terminate step once, issues no sleep and no shell command, and returns
\* True whether or not the terminate step succeeded.
NoOpActionReturnsAtOnce ==
    (op = "shutdown" /\ action \in {"Exit", "Loop"}) =>
        /\ Issued("sleep") = << >>
        /\ Issued("system") = << >>
        /\ Len(Issued("getlogin")) <= 1
        /\ Done => /\ result = Ret("True")
                   /\ stop_ret # "pending"
                   /\ Len(Issued("getlogin")) = 1

\* shutdown("Loop", 1) has returned True after a failed terminate step
WitnessNoOpAction ==
    /\ Done /\ op = "shutdown" /\ action = "Loop" /\ delay = 1
    /\ stop_ret = "False"
    /\ result = Ret("True")

\* C4 as stated: a finished shutdown("Sleep") has issued exactly the three
\* commands hibernation-off, suspend, hibernation-on, in that order.
SleepIssuesThreeCommands ==
    (Done /\ op = "shutdown" /\ action = "Sleep") => SystemCmds = SleepOrder

\* C4 as amended: the commands shutdown("Sleep") has issued are always an
\* initial part of hibernation-off, suspend, hibernation-on, and they are
\* all three when the call returns True.
SleepCommandsInOrder ==
    (op = "shutdown" /\ action = "Sleep") =>
        /\ IsPrefix(SystemCmds, SleepOrder)
        /\ (Done /\ result = Ret("True")) => SystemCmds = SleepOrder
        /\ (Done /\ result # Ret("True")) => Len(SystemCmds) < 3 \/ Raised({"system"})

\* shutdown("Sleep") has returned True
WitnessSleepCommands ==
    /\ Done /\ op = "shutdown" /\ action = "Sleep"
    /\ result = Ret("True")
    /\ Len(SystemCmds) = 3

\* C5: when FindWindow finds no window, switch_to_game returns False and
\* issues no ShowWindow and no SetForegroundWindow call.
NoWindowNoControl ==
    (op = "switch_to_game" /\ Len(Issued("FindWindow")) = 1
        /\ Issued("FindWindow")[1].ret = "ok" /\ Issued("FindWindow")[1].num = 0) =>
        /\ Done
        /\ result = Ret("False")
        /\ WindowCalls = << >>

\* switch_to_game has returned after a lookup that found nothing
WitnessNoWindow ==
    /\ Done /\ op = "switch_to_game"
    /\ Len(calls) = 1 /\ calls[1].call = "FindWindow"
    /\ calls[1].ret = "ok" /\ calls[1].num = 0

\* C6: start_game on a path that does not exist returns False and never
\* spawns; a spawn comes only after a path check that succeeded.
NoSpawnWithoutPath ==
    op = "start_game" =>
        /\ \A i \in 1..Len(calls) :
             calls[i].call = "system" =>
                 \E j \in 1..(i - 1) : calls[j].call = "exists" /\ calls[j].ret = "True"
        /\ (\E j \in 1..Len(calls) : calls[j].call = "exists" /\ calls[j].ret = "False") =>
             /\ Done
             /\ result = Ret("False")
             /\ Issued("system") = << >>

\* start_game has returned False on a missing path
WitnessNoSpawn ==
    /\ Done /\ op = "start_game"
    /\ Len(calls) = 1 /\ calls[1].call = "exists" /\ calls[1].ret = "False"
    /\ result = Ret("False")

\* C7: with the window found, switch_to_game restores, asks for the
\* foreground, and only on a refusal minimizes, restores and asks once more;
\* it returns True exactly when one of the at most two requests is accepted.
FocusProtocol ==
    (op = "switch_to_game" /\ hwnd # 0) =>
        LET W == WindowCalls
            F == Issued("SetForegroundWindow")
        IN  /\ Len(W) <= 5
            /\ Len(F) <= 2
            /\ Len(W) >= 1 => W[1].call = "ShowWindow" /\ W[1].num = 9
            /\ Len(W) >= 2 => W[2].call = "SetForegroundWindow"
            /\ Len(W) >= 3 => W[2].num = 0 /\ W[3].call = "ShowWindow" /\ W[3].num = 6
            /\ Len(W) >= 4 => W[4].call = "ShowWindow" /\ W[4].num = 9
            /\ Len(W) >= 5 => W[5].call = "SetForegroundWindow"
            /\ Done => /\ Len(F) >= 1
                       /\ result = Ret("True") <=> (\E i \in 1..Len(F) : F[i].num # 0)
                       /\ result = Ret("False") <=> (Len(F) = 2 /\ F[1].num = 0 /\ F[2].num = 0)

\* switch_to_game has returned True on the second request
WitnessFocusProtocol ==
    /\ Done /\ op = "switch_to_game"
    /\ Len(WindowCalls) = 5
    /\ result = Ret("True")

\* C8: for Shutdown, Sleep and Hibernate a shell command comes only after
\* the terminate step has returned and the delay has been slept, only the
\* commands of the requested action are issued, and a finished call has
\* issued its power action and has returned True unless a command raised.
PowerActionAfterTerminateAndDelay ==
    (op = "shutdown" /\ action \in {"Shutdown", "Sleep", "Hibernate"}) =>
        /\ \A i \in 1..Len(calls) :
             calls[i].call = "system" =>
                 /\ stop_ret # "pending"
                 /\ \E j \in 1..(i - 1) : calls[j].call = "sleep" /\ calls[j].ret = "ok"
        /\ IsPrefix(SystemCmds, PowerCommands(action))
        /\ Done => /\ SystemCmds # << >>
                   /\ ~Raised({"system"}) => result = Ret("True")

\* C9 as stated: stop_game returns True exactly when no owner lookup, no
\* terminate and no wait raised, and False exactly when one of them did.
StopFalseOnlyOnThreeCalls ==
    (Done /\ op = "stop_game") =>
        /\ result = Ret("True") <=> ~Raised({"username", "terminate", "wait"})
        /\ result = Ret("False") <=> Raised({"username", "terminate", "wait"})

\* C9 as amended: the terminate step returns True exactly when none of its
\* calls raised and every name could be read, and False otherwise; when it
\* returns True, the processes sent terminate and waited on are exactly the
\* enumerated ones that match.
StopTrueIffNothingRaised ==
    stop_ret # "pending" =>
        /\ stop_ret \in {"True", "False"}
        /\ stop_ret = "True" <=> (~Raised(TerminateStep) /\ ~UnreadableName)
        /\ stop_ret = "True" =>
             /\ PidsOf("terminate") = { i \in 1..Len(seen) : Targeted(i) }
             /\ PidsOf("wait") = PidsOf("terminate")
        /\ (Done /\ op = "stop_game") => result = Ret(stop_ret)

\* stop_game has returned True after signalling a process and passing another
WitnessStopTrue ==
    /\ Done /\ op = "stop_game"
    /\ result = Ret("True")
    /\ PidsOf("terminate") # {}
    /\ Cardinality(PidsOf("terminate")) < Len(seen)

\* C10: a shutdown("Sleep") that returns True issued hibernation-on as its
\* last hibernation command and leaves hibernation enabled; a call with any
\* other action issues no hibernation command and leaves the setting alone.
SleepEnablesHibernation ==
    /\ [](op = "shutdown" =>
            LET T == SelectSeq(SystemCmds, LAMBDA c : c \in {CmdHibernateOff, CmdHibernateOn})
            IN  /\ (Done /\ action = "Sleep" /\ result = Ret("True")) =>
                     /\ T # << >>
                     /\ T[Len(T)] = CmdHibernateOn
                     /\ hibernation
                /\ action # "Sleep" => T = << >>)
    /\ [][(op' # "shutdown" \/ action' # "Sleep") => hibernation' = hibernation]_vars

\* shutdown("Sleep") has returned True and some command was issued
WitnessSleepEnables ==
    /\ Done /\ op = "shutdown" /\ action = "Sleep"
    /\ result = Ret("True")
    /\ hibernation
    /\ Issued("system")[1].arg = CmdHibernateOff


====
